---- MODULE Spec2Model ----
(***************************************************************************)
(* streamis: Redis PUB/SUB channels relayed to HTTP EventSource listeners. *)
(* A model of SubscriptionManager, Subscription and SSEHandler.get as the  *)
(* asyncio event loop runs them: every action is the code between two      *)
(* suspension points (await) of one coroutine.                             *)
(***************************************************************************)
EXTENDS Integers, Sequences, FiniteSets, TLC

\* ---------------------------------------------------------------- bounds
NumCalls == 2        \* invocations of SSEHandler.get (each calls subscribe once)
NumChannels == 2     \* channel names
MaxMsgs == 2         \* messages published in all
QueueBound == 1      \* maxsize of a listener queue that is bounded (ApiInit)

Calls == 1..NumCalls
\* the listener objects: the application makes one SSEHandler for each request,
\* so that in the server handler k is the `self` of invocation k of get
Listeners == Calls
Channels == 1..NumChannels
None == 0

VARIABLES
    pc,             \* pc[k]: where invocation k of SSEHandler.get stands
    clis,           \* clis[k]: the handler (listener) of invocation k, `self`
    cchan,          \* cchan[k]: the channel argument of invocation k
    subscriptions,  \* SubscriptionManager.subscriptions: channel -> Subscription
    listeners,      \* Subscription.listeners of the Subscription made by call k
    loop,           \* state of the broadcast task of the Subscription made by call k
    channel,        \* Subscription.channel: the upstream handle res[0]
    hstate,         \* upstream handle h: "unused", "open", "closed"
    hq,             \* messages buffered in upstream handle h, not yet taken by get()
    sharedChannel,  \* does the client keep one handle per channel name? (see SubscribeHandle)
    maxsize,        \* maxsize[l]: maxsize of listener.queue (0: unbounded)
    published,      \* published[c]: number of messages published on channel c
    queue,          \* listener.queue: messages awaiting the handler's write
    conn,           \* the HTTP stream of the handler: "open" or "closed"
    enqueued,       \* history: every message ever put on listener.queue
    evicted,        \* history: listeners removed by a broadcast sweep
    unsubscribed,   \* history: channels unsubscribe() popped from the registry
    joinedAt,       \* history: joinedAt[k]: messages published on the channel
                    \* of call k when the call registered its listener
    warned          \* the log: has unsubscribe warned "Not subscribed to channel"?

vars == <<pc, clis, cchan, subscriptions, listeners, loop, channel, hstate, hq,
          sharedChannel, maxsize, published, queue, conn, enqueued, evicted,
          unsubscribed, joinedAt, warned>>

\* A Subscription object is named by the call that constructed it (line 86);
\* its upstream handle, when the client made a new one, carries the same name.
Name(s) == cchan[s]

Msg(c, n) == <<c, n>>

\* maxsize of listener.queue
MaxSize(l) == maxsize[l]

\* asyncio.Queue.full(): maxsize <= 0 is never full.
Full(l, q) == MaxSize(l) > 0 /\ Len(q[l]) >= MaxSize(l)

\* the manager as main() leaves it, before the first request: an empty registry
Started ==
    /\ pc = [k \in Calls |-> "idle"]
    /\ clis = [k \in Calls |-> None]
    /\ cchan = [k \in Calls |-> None]
    /\ subscriptions = [c \in Channels |-> None]
    /\ listeners = [k \in Calls |-> {}]
    /\ loop = [k \in Calls |-> "none"]
    /\ channel = [k \in Calls |-> None]
    /\ hstate = [k \in Calls |-> "unused"]
    /\ hq = [k \in Calls |-> <<>>]
    /\ published = [c \in Channels |-> 0]
    /\ queue = [l \in Listeners |-> <<>>]
    /\ conn = [l \in Listeners |-> "open"]
    /\ enqueued = [l \in Listeners |-> <<>>]
    /\ evicted = {}
    /\ unsubscribed = {}
    /\ joinedAt = [k \in Calls |-> 0]
    /\ warned = FALSE

\* The server: every handler has the queue SSEHandler.initialize gives it,
\* Queue(), whose maxsize is 0.
Init ==
    /\ Started
    /\ sharedChannel \in BOOLEAN
    /\ maxsize = [l \in Listeners |-> 0]

\* The classes used through their methods by any caller: a listener is whatever
\* object the caller hands to subscribe; here the last one has a queue bounded
\* to QueueBound, the others have Queue(). The client is the one the module
\* imports, aioredis, which keeps one Channel object per subscribed name.
ApiInit ==
    /\ Started
    /\ sharedChannel = TRUE
    /\ maxsize = [l \in Listeners |-> IF l = NumCalls THEN QueueBound ELSE 0]

\* ------------------------------------------------------- the upstream client
\* handles that are open for channel name c
OpenHandles(c) == {h \in Calls : hstate[h] = "open" /\ Name(h) = c}

\* res[0] of redis.subscribe(name) for the Subscription made by call k. What the
\* client returns when the name is subscribed already is the client's business,
\* not this code's: a client that keeps one Channel object per subscribed name
\* on its connection (aioredis does) returns the one it has, whose messages the
\* broadcast tasks waiting on it then share; any other client returns a new
\* handle, which gets every message published from then on. Both are modelled,
\* the choice is made in Init.
SubscribeHandle(k) ==
    IF sharedChannel /\ OpenHandles(Name(k)) # {}
    THEN CHOOSE h \in OpenHandles(Name(k)) : TRUE
    ELSE k

RECURSIVE SumOver(_, _)
SumOver(f, S) == IF S = {} THEN 0
                 ELSE LET x == CHOOSE x \in S : TRUE IN f[x] + SumOver(f, S \ {x})

\* the number of messages published so far
Published == SumOver(published, Channels)

\* A message is published on channel c: every handle open for c buffers it.
Publish(c) ==
    /\ Published < MaxMsgs
    /\ published' = [published EXCEPT ![c] = @ + 1]
    /\ hq' = [h \in Calls |->
                IF h \in OpenHandles(c) THEN Append(hq[h], published[c] + 1)
                ELSE hq[h]]
    /\ UNCHANGED <<pc, clis, cchan, subscriptions, listeners, loop, channel, hstate,
                   sharedChannel, maxsize, queue, conn, enqueued, evicted,
                   unsubscribed, joinedAt,
                   warned>>

\* The upstream subscription ends (the backend connection drops).
SourceClosed(h) ==
    /\ hstate[h] = "open"
    /\ hstate' = [hstate EXCEPT ![h] = "closed"]
    /\ UNCHANGED <<pc, clis, cchan, subscriptions, listeners, loop, channel, hq,
                   sharedChannel, maxsize, published, queue, conn, enqueued, evicted,
                   unsubscribed, joinedAt,
                   warned>>

\* ------------------------------------------------ SubscriptionManager.subscribe
\* SubscribeExisting with call_soon outside the else branch: the broadcast task
\* of the registered Subscription is scheduled again.
SubscribeExistingRestarts(k, l, c) ==
    /\ pc[k] = "idle"
    /\ \A j \in Calls : j < k => pc[j] # "idle"
    /\ subscriptions[c] # None
    /\ pc' = [pc EXCEPT ![k] = "streaming"]
    /\ clis' = [clis EXCEPT ![k] = l]
    /\ cchan' = [cchan EXCEPT ![k] = c]
    /\ listeners' = [listeners EXCEPT ![subscriptions[c]] = @ \cup {l}]
    /\ loop' = [loop EXCEPT ![subscriptions[c]] = "scheduled"]
    /\ joinedAt' = [joinedAt EXCEPT ![k] = published[c]]
    /\ UNCHANGED <<subscriptions, channel, hstate, hq, sharedChannel, maxsize, published,
                   queue, conn, enqueued, evicted, unsubscribed,
                   warned>>

\* SSEHandler.get -> manager.subscribe(self, channel), channel already registered:
\* the listener is added to the registered Subscription, with no await on the way,
\* and get goes on to wait on its queue.
SubscribeExisting(k, l, c) ==
    /\ pc[k] = "idle"
    /\ \A j \in Calls : j < k => pc[j] # "idle"
    /\ subscriptions[c] # None
    /\ pc' = [pc EXCEPT ![k] = "streaming"]
    /\ clis' = [clis EXCEPT ![k] = l]
    /\ cchan' = [cchan EXCEPT ![k] = c]
    /\ listeners' = [listeners EXCEPT ![subscriptions[c]] = @ \cup {l}]
    /\ joinedAt' = [joinedAt EXCEPT ![k] = published[c]]
    /\ UNCHANGED <<subscriptions, loop, channel, hstate, hq, sharedChannel, maxsize, published,
                   queue, conn, enqueued, evicted, unsubscribed,
                   warned>>

\* manager.subscribe(self, channel), channel not registered: a Subscription is
\* constructed and the call suspends in `await subscription.subscribe()`.
SubscribeNew(k, l, c) ==
    /\ pc[k] = "idle"
    /\ \A j \in Calls : j < k => pc[j] # "idle"
    /\ subscriptions[c] = None
    /\ pc' = [pc EXCEPT ![k] = "opening"]
    /\ clis' = [clis EXCEPT ![k] = l]
    /\ cchan' = [cchan EXCEPT ![k] = c]
    /\ UNCHANGED <<subscriptions, listeners, loop, channel, hstate, hq, sharedChannel, maxsize,
                   published, queue, conn, enqueued, evicted, unsubscribed,
                   joinedAt,
                   warned>>

\* SubscribeOpened with add_listener left for later: the task is scheduled for a
\* Subscription that holds no listener yet.
SubscribeOpenedWithoutListener(k) ==
    /\ pc[k] = "opening"
    /\ channel' = [channel EXCEPT ![k] = SubscribeHandle(k)]
    /\ hstate' = [hstate EXCEPT ![SubscribeHandle(k)] = "open"]
    /\ subscriptions' = [subscriptions EXCEPT ![cchan[k]] = k]
    /\ loop' = [loop EXCEPT ![k] = "scheduled"]
    /\ pc' = [pc EXCEPT ![k] = "streaming"]
    /\ joinedAt' = [joinedAt EXCEPT ![k] = published[cchan[k]]]
    /\ UNCHANGED <<clis, cchan, listeners, hq, sharedChannel, maxsize, published, queue, conn,
                   enqueued, evicted, unsubscribed, warned>>

\* redis.subscribe returned: the handle is stored, the Subscription is registered
\* (over whatever the registry holds by now), its broadcast task is scheduled and
\* the listener is added, all before the event loop runs anything else.
SubscribeOpened(k) ==
    /\ pc[k] = "opening"
    /\ channel' = [channel EXCEPT ![k] = SubscribeHandle(k)]
    /\ hstate' = [hstate EXCEPT ![SubscribeHandle(k)] = "open"]
    /\ subscriptions' = [subscriptions EXCEPT ![cchan[k]] = k]
    /\ loop' = [loop EXCEPT ![k] = "scheduled"]
    /\ listeners' = [listeners EXCEPT ![k] = @ \cup {clis[k]}]
    /\ pc' = [pc EXCEPT ![k] = "streaming"]
    /\ joinedAt' = [joinedAt EXCEPT ![k] = published[cchan[k]]]
    /\ UNCHANGED <<clis, cchan, hq, sharedChannel, maxsize, published, queue, conn,
                   enqueued, evicted, unsubscribed,
                   warned>>

\* SubscribeRaised with the Subscription registered before the await.
SubscribeRaisedRegistered(k) ==
    /\ pc[k] = "opening"
    /\ pc' = [pc EXCEPT ![k] = "raised"]
    /\ subscriptions' = [subscriptions EXCEPT ![cchan[k]] = k]
    /\ UNCHANGED <<clis, cchan, listeners, loop, channel, hstate, hq,
                   sharedChannel, maxsize, published, queue, conn, enqueued, evicted,
                   unsubscribed, joinedAt,
                   warned>>

\* redis.subscribe raised: the exception leaves subscribe and get.
SubscribeRaised(k) ==
    /\ pc[k] = "opening"
    /\ pc' = [pc EXCEPT ![k] = "raised"]
    /\ UNCHANGED <<clis, cchan, subscriptions, listeners, loop, channel, hstate, hq,
                   sharedChannel, maxsize, published, queue, conn, enqueued, evicted,
                   unsubscribed, joinedAt,
                   warned>>

\* ---------------------------------------------- SubscriptionManager.unsubscribe
\* Unsubscribe without the test of lines 94-96: pop raises KeyError for a
\* channel that is not registered, and the call does not return normally.
UnsubscribeWithoutCheck(c) ==
    /\ subscriptions[c] # None
    /\ subscriptions' = [subscriptions EXCEPT ![c] = None]
    /\ unsubscribed' = unsubscribed \cup {c}
    /\ UNCHANGED <<pc, clis, cchan, listeners, loop, channel, hstate, hq, sharedChannel, maxsize,
                   published, queue, conn, enqueued, evicted, joinedAt, warned>>

\* unsubscribe(channel): a channel that is not registered is logged and left,
\* a registered one is popped from the registry; nothing else is touched.
Unsubscribe(c) ==
    /\ subscriptions' = [subscriptions EXCEPT ![c] = None]
    /\ unsubscribed' = IF subscriptions[c] # None THEN unsubscribed \cup {c}
                       ELSE unsubscribed
    /\ warned' = (warned \/ subscriptions[c] = None)
    /\ UNCHANGED <<pc, clis, cchan, listeners, loop, channel, hstate, hq, sharedChannel, maxsize,
                   published, queue, conn, enqueued, evicted, joinedAt>>

\* --------------------------------------------------------- Subscription.broadcast
\* Deliver with the try around the whole for loop: the first failing put ends the sweep.
RECURSIVE DeliverAbortsOnFailure(_, _, _, _)
DeliverAbortsOnFailure(order, msg, q, closed) ==
    IF order = <<>> THEN [q |-> q, closed |-> closed]
    ELSE LET l == Head(order) IN
         IF Full(l, q)
         THEN [q |-> q, closed |-> closed \cup {l}]
         ELSE DeliverAbortsOnFailure(Tail(order), msg,
                                     [q EXCEPT ![l] = Append(@, msg)], closed)

\* Deliver that also marks for removal a listener whose queue the put has
\* filled: a listener whose enqueue succeeded is removed.
RECURSIVE DeliverEvictsWhenFull(_, _, _, _)
DeliverEvictsWhenFull(order, msg, q, closed) ==
    IF order = <<>> THEN [q |-> q, closed |-> closed]
    ELSE LET l == Head(order)
             r == [q EXCEPT ![l] = Append(@, msg)]
         IN IF Full(l, q)
            THEN DeliverEvictsWhenFull(Tail(order), msg, q, closed \cup {l})
            ELSE DeliverEvictsWhenFull(Tail(order), msg, r,
                                       IF Full(l, r) THEN closed \cup {l} ELSE closed)

\* The for loop of one sweep over the listeners in iteration order `order`:
\* put_nowait on each queue, the listeners whose put raised collected in closed.
RECURSIVE Deliver(_, _, _, _)
Deliver(order, msg, q, closed) ==
    IF order = <<>> THEN [q |-> q, closed |-> closed]
    ELSE LET l == Head(order) IN
         IF Full(l, q)
         THEN Deliver(Tail(order), msg, q, closed \cup {l})
         ELSE Deliver(Tail(order), msg, [q EXCEPT ![l] = Append(@, msg)], closed)

\* the iteration orders of a set
Orders(S) == {o \in [1..Cardinality(S) -> S] : \A i, j \in 1..Cardinality(S) :
                                                  i # j => o[i] # o[j]}

\* The task starts: the first test of `while len(self.listeners) > 0`.
BroadcastStart(s) ==
    /\ loop[s] = "scheduled"
    /\ loop' = [loop EXCEPT ![s] = IF listeners[s] # {} THEN "waiting" ELSE "exited"]
    /\ UNCHANGED <<pc, clis, cchan, subscriptions, listeners, channel, hstate, hq,
                   sharedChannel, maxsize, published, queue, conn, enqueued, evicted,
                   unsubscribed, joinedAt,
                   warned>>

\* Broadcast with `await listener.queue.put(msg)`: the iteration cannot be
\* done while the queue of a listener is full.
BroadcastBlockingPut(s, order) ==
    /\ loop[s] = "waiting"
    /\ hq[channel[s]] # <<>>
    /\ \A l \in listeners[s] : ~Full(l, queue)
    /\ LET msg == Msg(Name(s), Head(hq[channel[s]])) IN
          /\ hq' = [hq EXCEPT ![channel[s]] = Tail(@)]
          /\ queue' = [l \in Listeners |->
                         IF l \in listeners[s] THEN Append(queue[l], msg) ELSE queue[l]]
          /\ enqueued' = [l \in Listeners |->
                            IF l \in listeners[s] THEN Append(enqueued[l], msg)
                            ELSE enqueued[l]]
    /\ UNCHANGED <<pc, clis, cchan, subscriptions, listeners, loop, channel, hstate,
                   sharedChannel, maxsize, published, conn, evicted, unsubscribed, joinedAt,
                   warned>>

\* One iteration: channel.get() yields a message, the sweep, the removals and
\* the next test of the while condition.
Broadcast(s, order) ==
    /\ loop[s] = "waiting"
    /\ hq[channel[s]] # <<>>
    /\ LET msg == Msg(Name(s), Head(hq[channel[s]]))
           d == Deliver(order, msg, queue, {})
       IN /\ hq' = [hq EXCEPT ![channel[s]] = Tail(@)]
          /\ queue' = d.q
          /\ enqueued' = [l \in Listeners |->
                            IF d.q[l] # queue[l]
                            THEN Append(enqueued[l], msg) ELSE enqueued[l]]
          /\ listeners' = [listeners EXCEPT ![s] = @ \ d.closed]
          /\ evicted' = evicted \cup d.closed
          /\ loop' = [loop EXCEPT ![s] =
                        IF listeners[s] \ d.closed # {} THEN "waiting" ELSE "exited"]
    /\ UNCHANGED <<pc, clis, cchan, subscriptions, channel, hstate, sharedChannel, maxsize,
                   published, conn, unsubscribed, joinedAt,
                   warned>>

\* The iteration order of a set is not fixed by the language.
BroadcastAnyOrder(s) == \E order \in Orders(listeners[s]) : Broadcast(s, order)

\* BroadcastSourceClosed with the exception taking the event loop down: every
\* waiting broadcast task dies with it.
BroadcastSourceClosedKillsAll(s) ==
    /\ loop[s] = "waiting"
    /\ hstate[channel[s]] = "closed"
    /\ hq[channel[s]] = <<>>
    /\ loop' = [t \in Calls |-> IF loop[t] = "waiting" THEN "crashed" ELSE loop[t]]
    /\ UNCHANGED <<pc, clis, cchan, subscriptions, listeners, channel, hstate, hq,
                   sharedChannel, maxsize, published, queue, conn, enqueued, evicted,
                   unsubscribed, joinedAt, warned>>

\* channel.get() on an ended upstream subscription raises: the task dies.
BroadcastSourceClosed(s) ==
    /\ loop[s] = "waiting"
    /\ hstate[channel[s]] = "closed"
    /\ hq[channel[s]] = <<>>
    /\ loop' = [loop EXCEPT ![s] = "crashed"]
    /\ UNCHANGED <<pc, clis, cchan, subscriptions, listeners, channel, hstate, hq,
                   sharedChannel, maxsize, published, queue, conn, enqueued, evicted,
                   unsubscribed, joinedAt,
                   warned>>

\* ------------------------------------------------------------- SSEHandler.get
\* queue.get() yields a message and the stream is open: the message is written
\* and flush is awaited; the flush is done at once and get waits on the queue
\* again, or the coroutine is suspended in `await self.flush()`.
HandlerWrite(k) ==
    /\ pc[k] = "streaming"
    /\ queue[clis[k]] # <<>>
    /\ conn[clis[k]] = "open"
    /\ queue' = [queue EXCEPT ![clis[k]] = Tail(@)]
    /\ \E p \in {"streaming", "flushing"} : pc' = [pc EXCEPT ![k] = p]
    /\ UNCHANGED <<clis, cchan, subscriptions, listeners, loop, channel, hstate, hq,
                   sharedChannel, maxsize, published, conn, enqueued, evicted,
                   unsubscribed, joinedAt,
                   warned>>

\* queue.get() yields a message and the stream is closed already: flush raises
\* StreamClosedError at once, break.
HandlerStreamClosed(k) ==
    /\ pc[k] = "streaming"
    /\ queue[clis[k]] # <<>>
    /\ conn[clis[k]] = "closed"
    /\ queue' = [queue EXCEPT ![clis[k]] = Tail(@)]
    /\ pc' = [pc EXCEPT ![k] = "closed"]
    /\ UNCHANGED <<clis, cchan, subscriptions, listeners, loop, channel, hstate, hq,
                   sharedChannel, maxsize, published, conn, enqueued, evicted,
                   unsubscribed, joinedAt,
                   warned>>

\* The suspended flush completes: back to queue.get(). It completes normally
\* also when the stream was closed meanwhile: the connection does not hand the
\* StreamClosedError of a pending write on to the flush; the flush of the next
\* message raises it (HandlerStreamClosed).
HandlerFlushed(k) ==
    /\ pc[k] = "flushing"
    /\ pc' = [pc EXCEPT ![k] = "streaming"]
    /\ UNCHANGED <<clis, cchan, subscriptions, listeners, loop, channel, hstate, hq,
                   sharedChannel, maxsize, published, queue, conn, enqueued, evicted,
                   unsubscribed, joinedAt, warned>>

\* The consumer goes away: the HTTP stream of handler l is closed.
Disconnect(l) ==
    /\ conn[l] = "open"
    /\ \E k \in Calls : clis[k] = l
    /\ conn' = [conn EXCEPT ![l] = "closed"]
    /\ UNCHANGED <<pc, clis, cchan, subscriptions, listeners, loop, channel, hstate, hq,
                   sharedChannel, maxsize, published, queue, enqueued, evicted,
                   unsubscribed, joinedAt,
                   warned>>

\* The server of main(): request k is served by get on its own handler k, and
\* nothing calls unsubscribe.
Next ==
    \/ \E k \in Calls, c \in Channels : SubscribeExisting(k, k, c)
    \/ \E k \in Calls, c \in Channels : SubscribeNew(k, k, c)
    \/ \E k \in Calls : SubscribeOpened(k)
    \/ \E k \in Calls : SubscribeRaised(k)
    \/ \E s \in Calls : BroadcastStart(s)
    \/ \E s \in Calls : BroadcastAnyOrder(s)
    \/ \E s \in Calls : BroadcastSourceClosed(s)
    \/ \E c \in Channels : Publish(c)
    \/ \E h \in Calls : SourceClosed(h)
    \/ \E k \in Calls : HandlerWrite(k)
    \/ \E k \in Calls : HandlerStreamClosed(k)
    \/ \E k \in Calls : HandlerFlushed(k)
    \/ \E l \in Listeners : Disconnect(l)

Spec == Init /\ [][Next]_vars

\* The methods of SubscriptionManager called by any caller: subscribe with any
\* listener, also one that is subscribed already, and unsubscribe.
ApiNext ==
    \/ \E k \in Calls, l \in Listeners, c \in Channels : SubscribeExisting(k, l, c)
    \/ \E k \in Calls, l \in Listeners, c \in Channels : SubscribeNew(k, l, c)
    \/ \E k \in Calls : SubscribeOpened(k)
    \/ \E k \in Calls : SubscribeRaised(k)
    \/ \E c \in Channels : Unsubscribe(c)
    \/ \E s \in Calls : BroadcastStart(s)
    \/ \E s \in Calls : BroadcastAnyOrder(s)
    \/ \E s \in Calls : BroadcastSourceClosed(s)
    \/ \E c \in Channels : Publish(c)
    \/ \E h \in Calls : SourceClosed(h)
    \/ \E k \in Calls : HandlerWrite(k)
    \/ \E k \in Calls : HandlerStreamClosed(k)
    \/ \E k \in Calls : HandlerFlushed(k)
    \/ \E l \in Listeners : Disconnect(l)

ApiSpec == ApiInit /\ [][ApiNext]_vars

\* ------------------------------------------------------------------ properties
\* the broadcast task of Subscription s is alive
Running(s) == loop[s] \in {"scheduled", "waiting"}

\* subscribe has returned to get in call k
Returned(k) == pc[k] \in {"streaming", "flushing", "closed"}

\* the Subscription objects constructed for channel c (line 86): by the calls
\* that found the channel unregistered, whether the open is pending, has
\* raised or has succeeded
RelaysOf(c) == {s \in Calls : /\ Name(s) = c
                              /\ (pc[s] \in {"opening", "raised"} \/ loop[s] # "none")}

\* the broadcast task of s can take no step unless a new message is published
\* or the upstream subscription ends
Settled(s) == /\ loop[s] # "scheduled"
              /\ loop[s] = "waiting" => hq[channel[s]] = <<>>

\* the numbers of the messages of channel c in a sequence of messages
RECURSIVE FromChannel(_, _)
FromChannel(seq, c) ==
    IF seq = <<>> THEN <<>>
    ELSE IF Head(seq)[1] = c THEN <<Head(seq)[2]>> \o FromChannel(Tail(seq), c)
         ELSE FromChannel(Tail(seq), c)

\* the listeners a completed subscribe call registered for channel c
Subscribed(c) == {clis[k] : k \in {j \in Calls : /\ cchan[j] = c
                                                    /\ Returned(j)}}

\* C1: in every reachable state a channel name has at most one open upstream
\* subscription and at most one running relay loop.
C1_OneRelayPerChannel ==
    \A c \in Channels :
        /\ Cardinality(OpenHandles(c)) <= 1
        /\ Cardinality({s \in RelaysOf(c) : Running(s)}) <= 1

\* C2: when every subscribe on a channel completed before its first message was
\* published, and there was no unsubscribe, no delivery failure and no end of
\* the upstream subscription, each subscribed listener was handed a prefix of
\* the published sequence, and the whole of it once the relays have nothing
\* left to take.
C2_EveryListenerGetsAll ==
    \A c \in Channels :
        (/\ \A k \in Calls : (cchan[k] = c /\ Returned(k)) => joinedAt[k] = 0
         /\ unsubscribed = {}
         /\ evicted = {}
         /\ \A s \in RelaysOf(c) : hstate[s] # "closed")
        => \A l \in Subscribed(c) :
              LET got == FromChannel(enqueued[l], c) IN
              /\ Len(got) <= published[c]
              /\ \A i \in 1..Len(got) : got[i] = i
              /\ (\A s \in RelaysOf(c) : Settled(s)) => Len(got) = published[c]

\* C3: after unsubscribe for a channel whose relays hold at most one listener
\* each (so that every listener of the channel has unsubscribed), with no relay
\* registered for the channel since and the relay loops having nothing left to
\* take, no relay loop of the channel is running (none is left waiting for a
\* message) and no upstream subscription of the channel is open.
C3_ReleasedAfterLastUnsubscribe ==
    \A c \in Channels :
        (/\ c \in unsubscribed
         /\ subscriptions[c] = None
         /\ \A s \in RelaysOf(c) : Settled(s) /\ Cardinality(listeners[s]) <= 1)
        => /\ \A s \in RelaysOf(c) : ~Running(s)
           /\ OpenHandles(c) = {}

\* C4: an unsubscribe on a channel whose relay holds several listeners removes
\* one listener from the relay and leaves the relay registered.
C4_UnsubscribeRemovesOneListener ==
    [][\A c \in Channels :
          (/\ Unsubscribe(c)
           /\ subscriptions[c] # None
           /\ Cardinality(listeners[subscriptions[c]]) >= 2)
          => /\ subscriptions'[c] = subscriptions[c]
             /\ \E l \in listeners[subscriptions[c]] :
                   listeners'[subscriptions[c]] = listeners[subscriptions[c]] \ {l}]_vars

\* the listeners of s whose put_nowait fails in the current state
Failing(s) == {l \in listeners[s] : Full(l, queue)}

\* C5: in a sweep in which the enqueue to some listener fails, every other
\* listener of the relay has the message appended to its queue, whatever the
\* iteration order, the failing listeners are out of the listener set after the
\* sweep, and the loop goes on exactly when a listener remains.
C5_FailedDeliveryIsLocal ==
    [][\A s \in Calls : \A order \in Orders(listeners[s]) :
          (Broadcast(s, order) /\ Failing(s) # {})
          => /\ \A l \in listeners[s] \ Failing(s) :
                   queue'[l] = Append(queue[l], Msg(Name(s), Head(hq[channel[s]])))
             /\ \A l \in Failing(s) : queue'[l] = queue[l]
             /\ listeners'[s] = listeners[s] \ Failing(s)
             /\ loop'[s] = IF listeners'[s] # {} THEN "waiting" ELSE "exited"]_vars

\* C5 witness: a sweep evicted a listener and delivered to another one of the
\* same relay, which goes on.
C5_Witness ==
    \E s \in Calls : \E f \in evicted : \E l \in listeners[s] :
        /\ f \notin listeners[s]
        /\ loop[s] = "waiting"
        /\ \E k \in Calls : clis[k] = f /\ cchan[k] = Name(s) /\ pc[k] = "streaming"
        /\ Len(FromChannel(enqueued[l], Name(s))) > Len(FromChannel(enqueued[f], Name(s)))

\* C6: the step in which the opening of the upstream subscription fails ends the
\* call as raised and changes neither the registry nor any listener set, relay
\* loop or upstream handle; and a call that raised has left nothing behind: its
\* Subscription is not registered, runs no loop and holds no listener, its
\* channel has an entry and its listener a registration only where another
\* subscribe call made them.
C6_FailedOpenRegistersNothing ==
    /\ [][\A k \in Calls :
             (pc[k] = "opening" /\ pc'[k] = "raised")
             => /\ subscriptions' = subscriptions
                /\ listeners' = listeners
                /\ loop' = loop
                /\ hstate' = hstate /\ channel' = channel]_vars
    /\ [](\A k \in Calls :
             pc[k] = "raised"
             => /\ \A c \in Channels : subscriptions[c] # k
                /\ loop[k] = "none"
                /\ listeners[k] = {}
                /\ subscriptions[cchan[k]] # None
                      => \E j \in Calls \ {k} : cchan[j] = cchan[k]
                /\ \A s \in Calls : clis[k] \in listeners[s]
                      => \E j \in Calls \ {k} : clis[j] = clis[k])

\* C6 witness: a call raised while another channel has a registered relay with
\* a listener.
C6_Witness ==
    \E k \in Calls : \E c \in Channels :
        /\ pc[k] = "raised"
        /\ c # cchan[k]
        /\ subscriptions[c] # None
        /\ listeners[subscriptions[c]] # {}
        /\ subscriptions[cchan[k]] = None

\* C7: once a handler has left get on a closed stream, its listener is in no
\* relay's listener set.
C7_DisconnectedListenerRemoved ==
    \A k \in Calls :
        pc[k] = "closed" => \A s \in Calls : clis[k] \notin listeners[s]

\* C8: the registry never keeps an entry for a relay whose loop is no longer
\* running.
C8_NoDeadRelayRegistered ==
    \A c \in Channels :
        subscriptions[c] # None => loop[subscriptions[c]] \notin {"exited", "crashed"}

\* C9: the registry has an entry for a channel exactly when the channel's relay
\* has a non-empty listener set.
C9_RegisteredIffListeners ==
    \A c \in Channels :
        /\ subscriptions[c] # None => listeners[subscriptions[c]] # {}
        /\ subscriptions[c] = None => \A s \in RelaysOf(c) : listeners[s] = {}

\* C10: for a listener that subscribed to a channel and was never evicted, the
\* messages of the channel put on its queue are a contiguous run
\* of the channel's sequence, in order, none duplicated; and none published
\* after its registration is skipped: once the relays have nothing left to
\* take, the run reaches from the first message after the registration to the
\* last one published.
C10_ContiguousRun ==
    \A k \in Calls :
        (/\ Returned(k)
         /\ clis[k] \notin evicted
         /\ \A s \in RelaysOf(cchan[k]) : hstate[s] # "closed")
        => LET got == FromChannel(enqueued[clis[k]], cchan[k]) IN
           /\ \A i \in 1..(Len(got) - 1) : got[i + 1] = got[i] + 1
           /\ (\A s \in RelaysOf(cchan[k]) : Settled(s))
                 => \A n \in (joinedAt[k] + 1)..published[cchan[k]] :
                        \E i \in 1..Len(got) : got[i] = n
\* the Subscription objects of channel c whose upstream subscription was opened
Opened(c) == {s \in RelaysOf(c) : loop[s] # "none"}

\* C11: a subscribe call for a listener that the registered relay of the
\* channel already holds leaves the listener sets, the registry, the relay
\* loops and the upstream handles as they are; a sweep puts its message on a
\* listener's queue at most once; and no message of a channel is ever put on a
\* listener's queue twice.
C11_RepeatedSubscribeIsIdempotent ==
    /\ [][\A k \in Calls :
             (/\ pc[k] = "idle" /\ pc'[k] = "streaming"
              /\ clis'[k] \in listeners[subscriptions[cchan'[k]]])
             => /\ listeners' = listeners
                /\ subscriptions' = subscriptions
                /\ loop' = loop
                /\ hstate' = hstate /\ channel' = channel /\ hq' = hq]_vars
    /\ [][\A s \in Calls : \A l \in Listeners :
             BroadcastAnyOrder(s)
             => \/ enqueued'[l] = enqueued[l]
                \/ enqueued'[l] = Append(enqueued[l], Msg(Name(s), Head(hq[channel[s]])))]_vars
    /\ [](\A c \in Channels : \A l \in Listeners :
             LET got == FromChannel(enqueued[l], c) IN
             \A i, j \in 1..Len(got) : i # j => got[i] # got[j])

\* C11 witness: two completed calls of one listener on one channel, one relay
\* holding the listener, and a message delivered to it once.
C11_Witness ==
    \E j, k \in Calls :
        /\ j # k
        /\ clis[j] = clis[k] /\ cchan[j] = cchan[k]
        /\ pc[j] = "streaming" /\ pc[k] = "streaming"
        /\ Opened(cchan[j]) = {j}
        /\ listeners[j] = {clis[j]}
        /\ published[cchan[j]] = 1
        /\ FromChannel(enqueued[clis[j]], cchan[j]) = <<1>>
\* C12: unsubscribe for a channel without a registry entry returns normally
\* (the call can always be made and completes) and changes neither the
\* registry nor any listener set, relay loop, upstream handle or queue.
C12_UnknownUnsubscribeIsNoOp ==
    /\ [](\A c \in Channels : subscriptions[c] = None => ENABLED Unsubscribe(c))
    /\ [][\A c \in Channels :
             (Unsubscribe(c) /\ subscriptions[c] = None)
             => /\ warned'
                /\ UNCHANGED <<pc, subscriptions, listeners, loop, channel, hstate, hq,
                               queue, enqueued, unsubscribed>>]_vars

\* C12 witness: the warning was logged while another channel has a registered
\* relay with a listener and a running loop.
C12_Witness ==
    /\ warned
    /\ \E c \in Channels :
          /\ subscriptions[c] # None
          /\ listeners[subscriptions[c]] # {}
          /\ loop[subscriptions[c]] = "waiting"
    /\ \E c \in Channels : subscriptions[c] = None /\ c \notin unsubscribed
\* the registry entry, listener sets, relay loops and upstream handles of every
\* channel but c are the same before and after the step
OthersUntouched(c) ==
    \A c2 \in Channels \ {c} :
        /\ subscriptions'[c2] = subscriptions[c2]
        /\ \A s \in RelaysOf(c2) :
              /\ listeners'[s] = listeners[s]
              /\ loop'[s] = loop[s]
              /\ channel'[s] = channel[s]
              /\ hstate'[s] = hstate[s]
              /\ hq'[s] = hq[s]

\* C13: a step that is a failure on one channel (its upstream subscription
\* ends, its relay loop dies on the ended subscription, an open for it fails,
\* or a sweep evicts one of its listeners) leaves the registry entry, the
\* listener sets, the relay loops and the upstream handles with their buffered
\* messages of every other channel unchanged.
C13_FailureStaysOnItsChannel ==
    [][/\ \A h \in Calls :
             (hstate[h] = "open" /\ hstate'[h] = "closed") => OthersUntouched(Name(h))
       /\ \A s \in Calls :
             (loop[s] = "waiting" /\ loop'[s] = "crashed") => OthersUntouched(Name(s))
       /\ \A k \in Calls :
             (pc[k] = "opening" /\ pc'[k] = "raised") => OthersUntouched(Name(k))
       /\ \A s \in Calls :
             (listeners'[s] # listeners[s] /\ listeners'[s] \subseteq listeners[s])
             => OthersUntouched(Name(s))]_vars

\* C13 witness: the relay loop of one channel died on its ended upstream
\* subscription while the relay of another channel is registered, waits for
\* messages and has delivered one to a listener it still holds.
C13_Witness ==
    \E s1, s2 \in Calls :
        /\ Name(s1) # Name(s2)
        /\ loop[s1] = "crashed"
        /\ loop[s2] = "waiting"
        /\ subscriptions[Name(s2)] = s2
        /\ \E l \in listeners[s2] : FromChannel(enqueued[l], Name(s2)) # <<>>
\* C14: once a sweep has removed the last listener of a relay, the relay loop
\* has terminated and, no other running relay using it, the upstream
\* subscription of the relay is released.
C14_LastEvictionReleasesUpstream ==
    \A s \in Calls :
        (/\ loop[s] = "exited"
         /\ \A t \in Calls \ {s} : Running(t) => channel[t] # channel[s])
        => hstate[channel[s]] # "open"
\* C15: a relay loop that waits for a message and has one buffered upstream
\* can always take it, whatever the state of the listeners' queues and
\* consumers; the step takes the message from upstream and puts it on the
\* queue of every listener of the relay whose queue is not full.
C15_RelayNeverWaitsOnListener ==
    /\ [](\A s \in Calls :
             (loop[s] = "waiting" /\ hq[channel[s]] # <<>>)
             => ENABLED BroadcastAnyOrder(s))
    /\ [][\A s \in Calls :
             BroadcastAnyOrder(s)
             => /\ hq'[channel[s]] = Tail(hq[channel[s]])
                /\ \A l \in listeners[s] :
                      ~Full(l, queue) => Len(queue'[l]) = Len(queue[l]) + 1]_vars

\* C15 witness: a listener whose consumer has taken nothing holds two messages
\* on its queue, and another listener of the same relay has received both and
\* its consumer has written both out.
C15_Witness ==
    \E s \in Calls : \E l1, l2 \in listeners[s] :
        /\ l1 # l2
        /\ loop[s] = "waiting"
        /\ Len(queue[l1]) = 2 /\ Len(enqueued[l1]) = 2
        /\ Len(enqueued[l2]) = 2 /\ queue[l2] = <<>>
\* C16: a sweep attempts exactly the listeners registered when the message is
\* taken and touches no other listener set; the listeners it removes are
\* exactly those whose enqueue failed in it; and no step of any kind removes a
\* listener from a relay unless its enqueue fails in that step.
C16_SweepIsTwoPhase ==
    [][/\ \A s \in Calls :
             BroadcastAnyOrder(s)
             => /\ listeners[s] \ listeners'[s] = Failing(s)
                /\ listeners'[s] \subseteq listeners[s]
                /\ \A l \in Listeners :
                      (queue'[l] # queue[l]) <=> (l \in listeners[s] \ Failing(s))
                /\ \A t \in Calls \ {s} : listeners'[t] = listeners[t]
                /\ pc' = pc /\ subscriptions' = subscriptions
       /\ \A s \in Calls :
             listeners[s] \ listeners'[s] \subseteq Failing(s)]_vars

\* C16 witness: one sweep has put its message on the queue of a listener it
\* kept and has removed another, whose queue was full with the message before.
C16_Witness ==
    \E s \in Calls : \E l \in listeners[s] : \E f \in evicted \ listeners[s] :
        /\ l \notin evicted
        /\ enqueued[l] = <<Msg(Name(s), 1), Msg(Name(s), 2)>>
        /\ enqueued[f] = <<Msg(Name(s), 1)>>
        /\ queue[f] = enqueued[f]
\* C17: a relay whose loop is scheduled and has not run yet holds its first
\* listener, so the first test of the loop never ends it; a loop is scheduled
\* once, when its relay is created; the first listener stays in the relay
\* until a sweep evicts it; and every sweep of the relay, the first one
\* included, puts its message on the queue of the first listener.
C17_NewRelayStartsWithListener ==
    /\ [](\A s \in Calls :
             /\ loop[s] = "scheduled" => clis[s] \in listeners[s]
             /\ (loop[s] # "none" /\ clis[s] \notin evicted) => clis[s] \in listeners[s])
    /\ [][\A s \in Calls :
             /\ loop[s] = "scheduled" => loop'[s] \in {"scheduled", "waiting"}
             /\ loop'[s] = "scheduled" => loop[s] \in {"none", "scheduled"}
             /\ (loop[s] = "none" /\ loop'[s] = "scheduled")
                   => (pc[s] = "opening" /\ subscriptions'[Name(s)] = s)
             /\ (BroadcastAnyOrder(s) /\ clis[s] \notin evicted)
                   => enqueued'[clis[s]] =
                         Append(enqueued[clis[s]], Msg(Name(s), Head(hq[channel[s]])))]_vars

\* C17 witness: the relay made by a call runs and its first listener has been
\* handed the first message published on the channel.
C17_Witness ==
    \E s \in Calls :
        /\ loop[s] = "waiting"
        /\ joinedAt[s] = 0
        /\ clis[s] \in listeners[s]
        /\ enqueued[clis[s]] = <<Msg(Name(s), 1)>>
        /\ hq[channel[s]] = <<>>
\* C18: on a channel that was never unsubscribed, every listener whose
\* subscribe call has returned and that was not evicted is in the listener set
\* of the relay the registry maps the channel to, and no relay that the
\* registry does not reference holds a listener.
C18_ListenersInRegisteredRelay ==
    /\ \A k \in Calls :
          (/\ Returned(k)
           /\ clis[k] \notin evicted
           /\ cchan[k] \notin unsubscribed)
          => /\ subscriptions[cchan[k]] # None
             /\ clis[k] \in listeners[subscriptions[cchan[k]]]
    /\ \A s \in Calls :
          (listeners[s] # {} /\ Name(s) \notin unsubscribed)
          => subscriptions[Name(s)] = s
====
